---- MODULE Spec2Model ----
(***************************************************************************)
(* A model of src/app.py, the GeoPandas + Streamlit spatial demo.          *)
(*                                                                         *)
(* Coordinates are integers in tenths of a degree.  The world of the main  *)
(* specification is a row of GridW one-degree islands along the equator,   *)
(* one degree of sea between neighbours (longitude 0 .. WorldW, latitude   *)
(* 0 .. 10); a polygon is an axis-aligned rectangle                        *)
(* [minx, miny, maxx, maxy] and a multi-polygon is a sequence of them.     *)
(* A GeoDataFrame is [columns, rows].                                      *)
(***************************************************************************)
EXTENDS Integers, Sequences, FiniteSets, TLC

\* ---------------------------------------------------------------- bounds
GridW == 2
MaxParts == 2
NumPoints == 3
MaxFetches == 2
MaxLoadRows == 2
MaxViewRows == 2

\* ------------------------------------------------------ program constants
Seed == 42
SliderMax == 200
SliderStep == 10
SliderDefault == 50
ZoomMin == 2
ZoomMax == 8
\* 0.1 degree and 360.0 degrees, in tenths of a degree
SpanFloor == 1
FullCircle == 3600

\* ------------------------------------------------------------- utilities
Min(a, b) == IF a < b THEN a ELSE b
Max(a, b) == IF a > b THEN a ELSE b
SetMin(S) == CHOOSE m \in S : \A x \in S : m <= x
SetMax(S) == CHOOSE m \in S : \A x \in S : m >= x

RECURSIVE SortInts(_)
SortInts(S) == IF S = {} THEN << >> ELSE <<SetMin(S)>> \o SortInts(S \ {SetMin(S)})

RECURSIVE Flatten(_)
Flatten(ss) == IF ss = << >> THEN << >> ELSE Head(ss) \o Flatten(Tail(ss))

Index(seq, v) == CHOOSE i \in 1..Len(seq) : seq[i] = v /\ \A j \in 1..(i - 1) : seq[j] # v
Range(seq) == {seq[i] : i \in 1..Len(seq)}

\* Missing values of a string column and of an index column.
NaN == "NaN"
NaNIndex == 0 - 1
notna(v) == v # NaN

\* Python's str.lower() and string ordering, on the names the model uses.
AllNames == <<"ANTARCTICA", "Antarctica", "Fiji", "New Zealand">>
str_lower(s) ==
    CASE s = "ANTARCTICA" -> "antarctica"
      [] s = "Antarctica" -> "antarctica"
      [] s = "Fiji" -> "fiji"
      [] s = "New Zealand" -> "new zealand"
      [] OTHER -> s
StrRank(s) == Index(AllNames, s)

RECURSIVE SortNames(_)
SortNames(S) ==
    IF S = {} THEN << >>
    ELSE LET m == CHOOSE n \in S : \A o \in S : StrRank(n) <= StrRank(o)
         IN <<m>> \o SortNames(S \ {m})

\* --------------------------------------------------------------- geometry
Rect(minx, miny, maxx, maxy) == [minx |-> minx, miny |-> miny, maxx |-> maxx, maxy |-> maxy]
\* Island c, and its western and eastern parts, which overlap.
Cells == 0..(GridW - 1)
WorldW == 20 * GridW - 10
CellRect(c) == Rect(20 * c, 0, 20 * c + 10, 10)
West(c) == Rect(20 * c, 0, 20 * c + 7, 10)
East(c) == Rect(20 * c + 3, 0, 20 * c + 10, 10)

\* shapely Point(lon, lat)
Point(x, y) == [x |-> x, y |-> y]

\* predicate="within": the point lies in the interior of the polygon.
within(p, poly) ==
    /\ poly.minx < p.x /\ p.x < poly.maxx
    /\ poly.miny < p.y /\ p.y < poly.maxy

\* geometry.buffer(0) of one (multi-)polygon: overlapping and edge-sharing
\* parts are dissolved, the result is a valid (multi-)polygon whose parts
\* are the maximal runs of covered ground (all parts span the same
\* latitudes, so the runs are runs of longitude: one starts where a part
\* starts that no other part reaches, and ends likewise).
buffer0(geom) ==
    LET P == 1..Len(geom)
        starts == SortInts({geom[i].minx : i \in {k \in P :
                    ~\E j \in P : geom[j].minx < geom[k].minx /\ geom[k].minx <= geom[j].maxx}})
        ends == SortInts({geom[i].maxx : i \in {k \in P :
                    ~\E j \in P : geom[j].minx <= geom[k].maxx /\ geom[k].maxx < geom[j].maxx}})
    IN [i \in 1..Len(starts) |-> Rect(starts[i], geom[1].miny, ends[i], geom[1].maxy)]

\* ------------------------------------------------------------ load_data
NameCandidates == <<"name", "ADMIN", "NAME", "NAME_LONG", "admin", "name_long">>

\* for c in [...]: if c in countries.columns: rename(columns={c: "name"}); break
FirstCandidate(columns) ==
    LET hits == {i \in 1..Len(NameCandidates) : NameCandidates[i] \in Range(columns)}
    IN IF hits = {} THEN "" ELSE NameCandidates[SetMin(hits)]

rename(gdf, old, new) ==
    LET cols == [i \in 1..Len(gdf.columns) |->
                    IF gdf.columns[i] = old THEN new ELSE gdf.columns[i]]
        src(k) == IF k = new THEN old ELSE k
    IN [columns |-> cols,
        rows |-> [r \in 1..Len(gdf.rows) |-> [k \in Range(cols) |-> gdf.rows[r][src(k)]]]]

standardise(gdf) ==
    IF FirstCandidate(gdf.columns) = "" THEN gdf
    ELSE rename(gdf, FirstCandidate(gdf.columns), "name")

\* countries[countries["name"].str.lower() != "antarctica"].reset_index(drop=True)
drop_antarctica_NODROP(gdf) == gdf
drop_antarctica(gdf) ==
    IF "name" \in Range(gdf.columns)
    THEN [gdf EXCEPT !.rows = SelectSeq(gdf.rows, LAMBDA r : str_lower(r.name) # "antarctica")]
    ELSE gdf

\* np.random.default_rng(42): a deterministic stream of draws from the seed
\* (a small linear congruential generator stands for PCG64).
RECURSIVE rng_state(_)
rng_state(k) == IF k = 0 THEN Seed ELSE (rng_state(k - 1) * 75 + 74) % 65537
\* the k-th draw of the stream, uniform on [low, high)
uniform(low, high, k) == low + (rng_state(k) * (high - low)) \div 65537

\* lats are drawn first, then lons, from the one generator; the sampling
\* window is the model's world instead of (-60, 75) x (-180, 180).
lats == [i \in 1..NumPoints |-> uniform(1, 10, i)]
lons == [i \in 1..NumPoints |-> uniform(0, WorldW, NumPoints + i)]
make_pts ==
    [columns |-> <<"id", "lat", "lon", "geometry">>,
     rows |-> [i \in 1..NumPoints |->
                [id |-> i - 1, lat |-> lats[i], lon |-> lons[i],
                 geometry |-> Point(lons[i], lats[i])]]]

\* The body of load_data, given what gpd.read_file returned.
load_data(fetched) ==
    [countries |-> drop_antarctica(standardise(fetched)), pts |-> make_pts]

\* ------------------------------------------------------ the script's steps
EmptyFrame == [columns |-> << >>, rows |-> << >>]
NoneName == "None"

\* sorted(countries["name"].unique())
make_options(countries) == SortNames({countries.rows[i].name : i \in 1..Len(countries.rows)})

\* index = options.index("New Zealand") if "New Zealand" in options else 0;
\* st.selectbox returns options[index] on the first run, None when there
\* are no options.
selectbox_default(options) ==
    IF options = << >> THEN NoneName
    ELSE IF "New Zealand" \in Range(options) THEN options[Index(options, "New Zealand")]
    ELSE options[1]

\* countries[countries["name"] == country_name]
select(countries, country_name) ==
    [countries EXCEPT !.rows = SelectSeq(countries.rows, LAMBDA r : r.name = country_name)]

\* sel["geometry"] = sel.geometry.buffer(0)
repair_NOBUFFER(sel) == sel
repair(sel) ==
    [sel EXCEPT !.rows = [i \in 1..Len(sel.rows) |->
        [sel.rows[i] EXCEPT !.geometry = buffer0(sel.rows[i].geometry)]]]

\* sel.explode(index_parts=False, ignore_index=True): one row per part
explode(sel) ==
    [sel EXCEPT !.rows = Flatten([i \in 1..Len(sel.rows) |->
        [j \in 1..Len(sel.rows[i].geometry) |->
            [sel.rows[i] EXCEPT !.geometry = sel.rows[i].geometry[j]]]])]

\* EPSG:4326 -> EPSG:3857: 111319.49 m per degree of longitude; the islands
\* lie on the equator, where latitude scales the same.
to_crs_3857(poly) ==
    Rect(poly.minx * 11132, poly.miny * 11132, poly.maxx * 11132, poly.maxy * 11132)
\* EPSG:3857 -> EPSG:4326, to the nearest tenth of a degree
to_crs_4326(poly) ==
    Rect((poly.minx + 5566) \div 11132, (poly.miny + 5566) \div 11132,
         (poly.maxx + 5566) \div 11132, (poly.maxy + 5566) \div 11132)
\* buffer(d) of a rectangle, kept as the rectangle it spans
buffer(poly, d) == Rect(poly.minx - d, poly.miny - d, poly.maxx + d, poly.maxy + d)

\* sel.to_crs(3857).buffer(buffer_km * 1000), as a frame, back in 4326
make_buffered(sel, buffer_km) ==
    [columns |-> <<"geometry">>,
     rows |-> [i \in 1..Len(sel.rows) |->
        [geometry |-> to_crs_4326(buffer(to_crs_3857(sel.rows[i].geometry), buffer_km * 1000))]]]

\* gpd.sjoin(left, right, predicate="within", how="left"): every left row
\* once per matching right row, or once with missing values when nothing
\* matches; the join adds index_right and the right frame's other columns.
sjoin(left, right) ==
    LET out(p) ==
            LET matches == SortInts({i \in 1..Len(right.rows) :
                                        within(p.geometry, right.rows[i].geometry)})
            IN IF matches = << >>
               THEN << p @@ [index_right |-> NaNIndex, name |-> NaN] >>
               ELSE [m \in 1..Len(matches) |->
                        p @@ [index_right |-> matches[m] - 1,
                              name |-> right.rows[matches[m]].name]]
    IN [columns |-> left.columns \o <<"index_right", "name">>,
        rows |-> Flatten([i \in 1..Len(left.rows) |-> out(left.rows[i])])]

\* the right frame of the join: sel[["name", "geometry"]]
join_right_BUFFERED(sel, buffered) ==
    [columns |-> <<"name", "geometry">>,
     rows |-> [i \in 1..Len(sel.rows) |->
        [name |-> sel.rows[i].name, geometry |-> buffered.rows[i].geometry]]]
join_right(sel, buffered) ==
    [columns |-> <<"name", "geometry">>,
     rows |-> [i \in 1..Len(sel.rows) |->
        [name |-> sel.rows[i].name, geometry |-> sel.rows[i].geometry]]]

\* joined["inside"] = joined["name"].notna()
inside_flag_ALWAYS(name) == TRUE
inside_flag(name) == notna(name)
add_inside(joined) ==
    [columns |-> joined.columns \o <<"inside">>,
     rows |-> [i \in 1..Len(joined.rows) |->
        joined.rows[i] @@ [inside |-> inside_flag(joined.rows[i].name)]]]

\* joined[mask][["lat", "lon", "id"]].copy()
points_where(joined, flag) ==
    [columns |-> <<"lat", "lon", "id">>,
     rows |-> LET keep == SelectSeq(joined.rows, LAMBDA r : r.inside = flag)
              IN [i \in 1..Len(keep) |-> [lat |-> keep[i].lat, lon |-> keep[i].lon, id |-> keep[i].id]]]

\* gdf.total_bounds
total_bounds(gdf) ==
    LET R == 1..Len(gdf.rows)
    IN Rect(SetMin({gdf.rows[i].geometry.minx : i \in R}), SetMin({gdf.rows[i].geometry.miny : i \in R}),
            SetMax({gdf.rows[i].geometry.maxx : i \in R}), SetMax({gdf.rows[i].geometry.maxy : i \in R}))

\* sel.geometry.representative_point().iloc[0]: for a rectangle, the middle
\* of the first part.  Like every centre below it is in twentieths of a
\* degree, which makes the division by two exact.
representative_point(gdf) ==
    LET g == gdf.rows[1].geometry IN Point(g.minx + g.maxx, g.miny + g.maxy)

\* np.log2(num / den) for num >= den > 0, as the pair of integers it lies
\* between (lo = hi when it is an integer).
Log2Floor(q) == CHOOSE n \in 0..30 : 2 ^ n <= q /\ (n = 30 \/ q < 2 ^ (n + 1))
log2(num, den) ==
    LET n == Log2Floor(num \div den)
        exact == (num % den = 0) /\ (num \div den = 2 ^ n)
    IN [lo |-> n, hi |-> IF exact THEN n ELSE n + 1]
\* np.clip on both ends of the pair
clip_NOCLAMP(z, a, b) == z
clip(z, a, b) == [lo |-> Max(a, Min(b, z.lo)), hi |-> Max(a, Min(b, z.hi))]

view_from_bounds(gdf) ==
    LET b == total_bounds(gdf)
        center_lat == b.miny + b.maxy
        center_lon == b.minx + b.maxx
        span == Max(Max(b.maxx - b.minx, b.maxy - b.miny), SpanFloor)
        zoom == clip(log2(FullCircle, span), ZoomMin, ZoomMax)
    IN [center_lat |-> center_lat, center_lon |-> center_lon, zoom |-> zoom]

\* pdk.ViewState(latitude=clat, longitude=clon, zoom=z); center_lat and
\* center_lon of lines 89-90 are computed but not passed.
ViewState_REP(center_lat, center_lon, clat, clon, z) ==
    [latitude |-> center_lat, longitude |-> center_lon, zoom |-> z]
ViewState(center_lat, center_lon, clat, clon, z) ==
    [latitude |-> clat, longitude |-> clon, zoom |-> z]

\* the three st.metric calls
make_metrics(joined, buffer_km) ==
    << [label |-> "Points inside",
        value |-> ToString(Cardinality({i \in 1..Len(joined.rows) : joined.rows[i].inside}))],
       [label |-> "Total points", value |-> ToString(Len(joined.rows))],
       [label |-> "Buffer (km)", value |-> ToString(buffer_km)] >>

\* if buffer_km > 0: layers.append(<buffer outline>)
buffer_layer_shown_ALWAYS(buffer_km) == buffer_km >= 0
buffer_layer_shown(buffer_km) == buffer_km > 0

Layer(type, data) == [type |-> type, data |-> data]
make_layers(show_all_countries, show_points_outside, buffer_km, inside_pts, outside_pts) ==
    (IF show_all_countries THEN <<Layer("GeoJsonLayer", "countries")>> ELSE << >>)
    \o <<Layer("GeoJsonLayer", "sel")>>
    \o (IF buffer_layer_shown(buffer_km) THEN <<Layer("GeoJsonLayer", "buffered")>> ELSE << >>)
    \o (IF Len(inside_pts.rows) > 0 THEN <<Layer("ScatterplotLayer", "inside_pts")>> ELSE << >>)
    \o (IF show_points_outside /\ Len(outside_pts.rows) > 0
        THEN <<Layer("ScatterplotLayer", "outside_pts")>> ELSE << >>)

\* joined.drop(columns=["geometry"])
drop_columns_NONE(gdf, dropped) == gdf
drop_columns(gdf, dropped) ==
    [columns |-> SelectSeq(gdf.columns, LAMBDA c : c \notin dropped),
     rows |-> [i \in 1..Len(gdf.rows) |->
        [k \in DOMAIN gdf.rows[i] \ dropped |-> gdf.rows[i][k]]]]

\* .to_csv(index=False): a header line, then one line per row.  Missing
\* values print empty, a column that holds a missing value prints as
\* float, booleans as True / False.
csv_cell(c, v, float) ==
    CASE c = "name" -> IF notna(v) THEN v ELSE ""
      [] c = "inside" -> IF v THEN "True" ELSE "False"
      [] c = "index_right" ->
            IF v = NaNIndex THEN ""
            ELSE IF float THEN ToString(v) \o ".0" ELSE ToString(v)
      [] OTHER -> ToString(v)
to_csv(df) ==
    LET float == "index_right" \in Range(df.columns)
                 /\ \E i \in 1..Len(df.rows) : df.rows[i].index_right = NaNIndex
    IN <<df.columns>> \o
       [i \in 1..Len(df.rows) |->
          [j \in 1..Len(df.columns) |-> csv_cell(df.columns[j], df.rows[i][df.columns[j]], float)]]

\* ------------------------------------------------- one run of the script
NoView == [latitude |-> 0, longitude |-> 0, zoom |-> [lo |-> 0, hi |-> 0]]
Unbound ==
    [sel |-> EmptyFrame, buffered |-> EmptyFrame, joined |-> EmptyFrame,
     inside_pts |-> EmptyFrame, outside_pts |-> EmptyFrame,
     center_lat |-> 0, center_lon |-> 0, metrics |-> << >>, layers |-> << >>,
     view_state |-> NoView, csv |-> << >>]

\* the names bound once the sidebar is through, and at the end of the script
SidebarNames ==
    {"countries", "pts", "options", "default_idx", "country_name", "buffer_km",
     "show_all_countries", "show_points_outside"}
AllNamesBound ==
    SidebarNames \cup {"sel", "sel_3857", "buffered_3857", "buffered", "joined", "inside_pts",
                       "outside_pts", "rep", "center_lat", "center_lon", "layers", "clat", "clon",
                       "z", "view_state", "csv"}

\* if sel.empty: st.stop() -- the run ends here; nothing below line 72 is
\* computed or emitted.
halt_LATE(side, sel0) ==
    LET joined == add_inside(sjoin(side.pts, join_right(sel0, sel0)))
    IN side @@
       [Unbound EXCEPT !.sel = sel0, !.joined = joined,
                       !.metrics = make_metrics(joined, side.buffer_km)] @@
       [status |-> "stopped", out |-> <<"title", "markdown", "sidebar", "metrics">>,
        defined |-> SidebarNames \cup {"sel", "joined"}]
halt(side, sel0) ==
    side @@ [Unbound EXCEPT !.sel = sel0] @@
    [status |-> "stopped", out |-> <<"title", "markdown", "sidebar">>,
     defined |-> SidebarNames \cup {"sel"}]

\* Lines 9-143 with the widgets' values w; `first` says whether the
\* selectbox has a value from the session yet.  The result is the script's
\* namespace (`defined` lists the names bound), what it emitted (`out`) and
\* how it ended.
run_script(data, w, first) ==
    LET countries == data.countries
        pts == data.pts
        pre == [countries |-> countries, pts |-> pts, options |-> << >>,
                country_name |-> w.country_name, buffer_km |-> w.buffer_km,
                show_all_countries |-> w.show_all_countries,
                show_points_outside |-> w.show_points_outside]
    IN
    IF "name" \notin Range(countries.columns)
    THEN \* line 63 raises KeyError inside the sidebar
         pre @@ Unbound @@
         [status |-> "error", out |-> <<"title", "markdown", "header", "exception">>,
          defined |-> {"countries", "pts"}]
    ELSE
    LET options == make_options(countries)
        country_name == IF first THEN selectbox_default(options) ELSE w.country_name
        side == [pre EXCEPT !.options = options, !.country_name = country_name]
        sel0 == select(countries, country_name)
    IN
    IF sel0.rows = << >>
    THEN halt(side, sel0)
    ELSE
    LET sel == explode(repair(sel0))
        buffered == make_buffered(sel, w.buffer_km)
        joined == add_inside(sjoin(pts, join_right(sel, buffered)))
        inside_pts == points_where(joined, TRUE)
        outside_pts == points_where(joined, FALSE)
        rep == representative_point(sel)
        layers == make_layers(w.show_all_countries, w.show_points_outside, w.buffer_km,
                              inside_pts, outside_pts)
        v == view_from_bounds(sel)
    IN side @@
       [sel |-> sel, buffered |-> buffered, joined |-> joined,
        inside_pts |-> inside_pts, outside_pts |-> outside_pts,
        center_lat |-> rep.y, center_lon |-> rep.x,
        metrics |-> make_metrics(joined, w.buffer_km),
        layers |-> layers,
        view_state |-> ViewState(rep.y, rep.x, v.center_lat, v.center_lon, v.zoom),
        csv |-> to_csv(drop_columns(joined, {"geometry"})),
        status |-> "done",
        out |-> <<"title", "markdown", "sidebar", "metrics", "pydeck_chart", "expander",
                  "download_button", "caption">>,
        defined |-> AllNamesBound]

\* @st.cache_data on a function without arguments: the body runs on the
\* first call of the process, later calls return the stored result.
NoCache == [valid |-> FALSE, value |-> [countries |-> EmptyFrame, pts |-> EmptyFrame]]
cached_load_data_NOCACHE(c, url_content) ==
    [value |-> load_data(url_content), fetched |-> 1,
     cache |-> [valid |-> TRUE, value |-> load_data(url_content)]]
cached_load_data(c, url_content) ==
    IF c.valid
    THEN [value |-> c.value, fetched |-> 0, cache |-> c]
    ELSE [value |-> load_data(url_content), fetched |-> 1,
          cache |-> [valid |-> TRUE, value |-> load_data(url_content)]]

\* ------------------------------------------------------------------ state
VARIABLES
    remote,                \* what the dataset URL serves
    cache, fetches,        \* st.cache_data's store; reads of the URL so far
    status,                \* "none" before the first run, then how the last run ended
    out, defined,          \* elements the last run emitted; names it bound
    country_name, buffer_km, show_all_countries, show_points_outside,
    countries, pts, options, sel, buffered, joined, inside_pts, outside_pts,
    center_lat, center_lon, metrics, layers, view_state, csv

widgets == <<country_name, buffer_km, show_all_countries, show_points_outside>>
namespace == <<countries, pts, options, sel, buffered, joined, inside_pts, outside_pts,
               center_lat, center_lon, metrics, layers, view_state, csv>>
vars == <<remote, cache, fetches, status, out, defined, widgets, namespace>>

\* --------------------------------------------------- the served datasets
RegionNames == <<"New Zealand", "Fiji">>
\* A region over the islands S as stored in the file: up to MaxParts
\* rectangles covering exactly S; an island is stored whole or as its two
\* overlapping parts.
RawGeoms(S) ==
    LET cs == SortInts(S)
        asSeq(T) == Flatten([i \in 1..Len(cs) |->
                        IF cs[i] \in T THEN <<West(cs[i]), East(cs[i])>> ELSE <<CellRect(cs[i])>>])
    IN {asSeq(T) : T \in {Q \in SUBSET S : Cardinality(S) + Cardinality(Q) <= MaxParts}}
\* Countries do not overlap one another: every island belongs to at most one
\* region (owner 0: nobody's), and names are unique (the file's ADMIN field).
\* Antarctica is always in the file, south of the islands.
RECURSIVE RegionRows(_, _)
RegionRows(owner, k) ==
    IF k > Len(RegionNames)
    THEN {<<[ADMIN |-> "Antarctica", geometry |-> <<Rect(0, 0 - 20, WorldW, 0 - 10)>>]>>}
    ELSE LET S == {c \in Cells : owner[c] = k}
         IN IF S = {} THEN RegionRows(owner, k + 1)
            ELSE {<<[ADMIN |-> RegionNames[k], geometry |-> g]>> \o rest :
                    g \in RawGeoms(S), rest \in RegionRows(owner, k + 1)}
GridDatasets ==
    {[columns |-> <<"ADMIN", "geometry">>, rows |-> rows] :
        rows \in UNION {RegionRows(owner, 1) : owner \in [Cells -> 0..Len(RegionNames)]}}
\* a file without any of the candidate name fields
NamelessDataset ==
    [columns |-> <<"SOVEREIGNT", "geometry">>,
     rows |-> <<[SOVEREIGNT |-> "Antarctica", geometry |-> <<CellRect(0)>>]>>]
MainDatasets == GridDatasets \cup {NamelessDataset}

\* ---------------------------------------------------------------- actions
Bind(r) ==
    /\ status' = r.status /\ out' = r.out /\ defined' = r.defined
    /\ country_name' = r.country_name /\ buffer_km' = r.buffer_km
    /\ show_all_countries' = r.show_all_countries
    /\ show_points_outside' = r.show_points_outside
    /\ countries' = r.countries /\ pts' = r.pts /\ options' = r.options
    /\ sel' = r.sel /\ buffered' = r.buffered /\ joined' = r.joined
    /\ inside_pts' = r.inside_pts /\ outside_pts' = r.outside_pts
    /\ center_lat' = r.center_lat /\ center_lon' = r.center_lon
    /\ metrics' = r.metrics /\ layers' = r.layers
    /\ view_state' = r.view_state /\ csv' = r.csv

\* One execution of the script, top to bottom, with widget values w.
Rerun(w, first) ==
    LET l == cached_load_data(cache, remote)
    IN /\ fetches + l.fetched <= MaxFetches
       /\ cache' = l.cache
       /\ fetches' = fetches + l.fetched
       /\ Bind(run_script(l.value, w, first))
       /\ UNCHANGED remote

current ==
    [country_name |-> country_name, buffer_km |-> buffer_km,
     show_all_countries |-> show_all_countries, show_points_outside |-> show_points_outside]
sidebar_rendered == status \in {"stopped", "done"}

\* The page is opened: the script runs with every widget at its default.
FirstRun ==
    /\ status = "none"
    /\ Rerun(current, TRUE)

\* The user picks another country; the script reruns.
SelectCountry ==
    /\ sidebar_rendered
    /\ \E n \in Range(options) \ {country_name} :
          Rerun([current EXCEPT !.country_name = n], FALSE)

\* The user moves the slider; the script reruns.
SetBuffer ==
    /\ sidebar_rendered
    /\ \E b \in {x \in 0..SliderMax : x % SliderStep = 0} \ {buffer_km} :
          Rerun([current EXCEPT !.buffer_km = b], FALSE)

ToggleAllCountries ==
    /\ sidebar_rendered
    /\ Rerun([current EXCEPT !.show_all_countries = ~show_all_countries], FALSE)

TogglePointsOutside ==
    /\ sidebar_rendered
    /\ Rerun([current EXCEPT !.show_points_outside = ~show_points_outside], FALSE)

Init ==
    /\ remote \in MainDatasets
    /\ cache = NoCache /\ fetches = 0
    /\ status = "none" /\ out = << >> /\ defined = {}
    /\ country_name = NoneName /\ buffer_km = SliderDefault
    /\ show_all_countries = TRUE /\ show_points_outside = FALSE
    /\ countries = EmptyFrame /\ pts = EmptyFrame /\ options = << >>
    /\ sel = Unbound.sel /\ buffered = Unbound.buffered /\ joined = Unbound.joined
    /\ inside_pts = Unbound.inside_pts /\ outside_pts = Unbound.outside_pts
    /\ center_lat = 0 /\ center_lon = 0 /\ metrics = << >> /\ layers = << >>
    /\ view_state = NoView /\ csv = << >>

Next == FirstRun \/ SelectCountry \/ SetBuffer \/ ToggleAllCountries \/ TogglePointsOutside

Spec == Init /\ [][Next]_vars

\* ------------------------------------- load_data on any served dataset
\* Files with any mix of name fields, names in any case, repeated names.
LoadNames == {"Antarctica", "ANTARCTICA", "Fiji", "New Zealand"}
LoadColumns ==
    {<<"SOVEREIGNT">>, <<"ADMIN">>, <<"name">>, <<"NAME", "ADMIN">>, <<"name_long", "NAME">>,
     <<"admin", "name">>}
LoadRows(cols) ==
    UNION {[1..n -> [Range(cols) -> LoadNames]] : n \in 0..MaxLoadRows}
LoadDatasets ==
    {[columns |-> cols \o <<"geometry">>,
      rows |-> [i \in 1..Len(vals) |->
                  vals[i] @@ [geometry |-> <<CellRect((i - 1) % GridW)>>]]] :
        cols \in LoadColumns, vals \in UNION {LoadRows(c) : c \in LoadColumns}}

InitLoad ==
    /\ remote \in {d \in LoadDatasets :
                     \A i \in 1..Len(d.rows) : DOMAIN d.rows[i] = Range(d.columns)}
    /\ cache = NoCache /\ fetches = 0
    /\ status = "none" /\ out = << >> /\ defined = {}
    /\ country_name = NoneName /\ buffer_km = SliderDefault
    /\ show_all_countries = TRUE /\ show_points_outside = FALSE
    /\ countries = EmptyFrame /\ pts = EmptyFrame /\ options = << >>
    /\ sel = Unbound.sel /\ buffered = Unbound.buffered /\ joined = Unbound.joined
    /\ inside_pts = Unbound.inside_pts /\ outside_pts = Unbound.outside_pts
    /\ center_lat = 0 /\ center_lon = 0 /\ metrics = << >> /\ layers = << >>
    /\ view_state = NoView /\ csv = << >>

NextLoad == FirstRun \/ SelectCountry

SpecLoad == InitLoad /\ [][NextLoad]_vars

\* ------------------------------------ the view of any selection's bounds
ViewOrigins == {<<-1800, -900>>, <<-100, -50>>, <<50, 50>>}
ViewWidths == {0, 1, 14, 15, 200, 900, 3600}
ViewHeights == {0, 100, 1800}
ViewBoxes ==
    {Rect(o[1], o[2], o[1] + w, o[2] + h) : o \in ViewOrigins, w \in ViewWidths, h \in ViewHeights}
    \cap [minx : -1800..1800, miny : -900..900, maxx : -1800..1800, maxy : -900..900]
ViewFrames ==
    {[columns |-> <<"name", "geometry">>,
      rows |-> [i \in 1..Len(boxes) |-> [name |-> "New Zealand", geometry |-> boxes[i]]]] :
        boxes \in UNION {[1..n -> ViewBoxes] : n \in 1..MaxViewRows}}

InitView ==
    /\ sel \in ViewFrames
    /\ remote = EmptyFrame /\ cache = NoCache /\ fetches = 0
    /\ status = "none" /\ out = << >> /\ defined = {"sel"}
    /\ country_name = "New Zealand" /\ buffer_km = SliderDefault
    /\ show_all_countries = TRUE /\ show_points_outside = FALSE
    /\ countries = EmptyFrame /\ pts = EmptyFrame /\ options = << >>
    /\ buffered = Unbound.buffered /\ joined = Unbound.joined
    /\ inside_pts = Unbound.inside_pts /\ outside_pts = Unbound.outside_pts
    /\ center_lat = 0 /\ center_lon = 0 /\ metrics = << >> /\ layers = << >>
    /\ view_state = NoView /\ csv = << >>

\* Lines 89-90 and 126-127 on the selection at hand.
FitView ==
    /\ "view_state" \notin defined
    /\ LET rep == representative_point(sel)
           v == view_from_bounds(sel)
       IN /\ center_lat' = rep.y
          /\ center_lon' = rep.x
          /\ view_state' = ViewState(rep.y, rep.x, v.center_lat, v.center_lon, v.zoom)
    /\ defined' = defined \cup {"rep", "center_lat", "center_lon", "clat", "clon", "z", "view_state"}
    /\ UNCHANGED <<remote, cache, fetches, status, out, widgets, countries, pts, options, sel,
                   buffered, joined, inside_pts, outside_pts, metrics, layers, csv>>

SpecView == InitView /\ [][FitView]_vars

\* ================================================================ claims
done == status = "done"
ran == status # "none"
JoinedRows == 1..Len(joined.rows)
HasLayer(data) == \E i \in 1..Len(layers) : layers[i].data = data
WithoutBuffer(ls) == SelectSeq(ls, LAMBDA l : l.data # "buffered")
StrictlyInside(pt, poly) ==
    poly.minx < pt.x /\ pt.x < poly.maxx /\ poly.miny < pt.y /\ pt.y < poly.maxy

\* C1: between two completed runs with the same country and the same
\* toggles (so that only the buffer distance can differ) the Membership
\* Table, the 'Points inside' and 'Total points' counters, the point sets,
\* the download and the view are the same; the layer list differs at most by
\* the buffer outline.
C1_JoinIgnoresBuffer ==
    [][ ( /\ done /\ done'
          /\ country_name' = country_name
          /\ show_all_countries' = show_all_countries
          /\ show_points_outside' = show_points_outside )
        => ( /\ joined' = joined
             /\ metrics'[1] = metrics[1] /\ metrics'[2] = metrics[2]
             /\ inside_pts' = inside_pts /\ outside_pts' = outside_pts
             /\ csv' = csv /\ sel' = sel /\ view_state' = view_state
             /\ WithoutBuffer(layers') = WithoutBuffer(layers) ) ]_vars
\* a run with a moved slider whose buffer outline holds a point that the
\* selection does not
C1_Witness ==
    /\ done /\ buffer_km # SliderDefault
    /\ \E i \in JoinedRows :
          /\ ~joined.rows[i].inside
          /\ \E j \in 1..Len(buffered.rows) :
                StrictlyInside(joined.rows[i].geometry, buffered.rows[j].geometry)

\* C2: after every run that gets past the empty-selection check the
\* Membership Table holds each sample point exactly once, so 'Total points'
\* is the number of sample points.
C2_EveryPointOnce ==
    done =>
        /\ Len(pts.rows) = NumPoints
        /\ Len(joined.rows) = Len(pts.rows)
        /\ \A k \in 1..Len(pts.rows) :
              Cardinality({i \in JoinedRows : joined.rows[i].id = pts.rows[k].id}) = 1
        /\ metrics[2] = [label |-> "Total points", value |-> ToString(NumPoints)]
\* a selection split into several parts, with a point inside the second
C2_Witness ==
    /\ done /\ Len(sel.rows) >= 2
    /\ \E i \in JoinedRows : joined.rows[i].index_right = 1

\* C3: a row's inside flag is true exactly when its point lies within some
\* part of the unbuffered selection; its name is the selected name when
\* inside and missing when outside; the inside and outside point sets are
\* disjoint and together hold every row.
C3_InsideIffWithin ==
    done =>
        LET ids(f) == {f.rows[i].id : i \in 1..Len(f.rows)}
        IN /\ \A i \in JoinedRows :
                /\ joined.rows[i].inside <=>
                      \E j \in 1..Len(sel.rows) :
                          StrictlyInside(joined.rows[i].geometry, sel.rows[j].geometry)
                /\ joined.rows[i].name = IF joined.rows[i].inside THEN country_name ELSE NaN
           /\ ids(inside_pts) \cap ids(outside_pts) = {}
           /\ ids(inside_pts) \cup ids(outside_pts) = ids(joined)
           /\ Len(inside_pts.rows) + Len(outside_pts.rows) = Len(joined.rows)
           /\ ids(inside_pts) = {joined.rows[i].id : i \in {k \in JoinedRows : joined.rows[k].inside}}
\* a run with points on both sides
C3_Witness ==
    /\ done
    /\ \E i \in JoinedRows : joined.rows[i].inside
    /\ \E i \in JoinedRows : ~joined.rows[i].inside

viewed == "view_state" \in defined
BBox ==
    LET R == 1..Len(sel.rows)
    IN [minx |-> SetMin({sel.rows[i].geometry.minx : i \in R}),
        miny |-> SetMin({sel.rows[i].geometry.miny : i \in R}),
        maxx |-> SetMax({sel.rows[i].geometry.maxx : i \in R}),
        maxy |-> SetMax({sel.rows[i].geometry.maxy : i \in R})]
BBoxIs(minx, miny, maxx, maxy) ==
    BBox = [minx |-> minx, miny |-> miny, maxx |-> maxx, maxy |-> maxy]

\* C4: the zoom of view_from_bounds lies in [2, 8] for every bounding box,
\* a zero-extent one and the whole globe included.
C4_ZoomInRange ==
    viewed => /\ 2 <= view_state.zoom.lo
              /\ view_state.zoom.lo <= view_state.zoom.hi
              /\ view_state.zoom.hi <= 8
\* the view of a zero-extent box
C4_Witness ==
    /\ viewed /\ BBox.minx = BBox.maxx /\ BBox.miny = BBox.maxy
    /\ view_state.zoom = [lo |-> 8, hi |-> 8]

\* C5: the view is the midpoint of the selection's bounding box (centres
\* are in twentieths of a degree) and zoom = clamp(log2(360 / span), 2, 8)
\* with span = max(width, height, 0.1): box (5,5,5,5) gives zoom 8, box
\* (-10,-5,10,5) gives centre (0,0) and a zoom strictly between 4 and 5.
C5_ViewFromBounds ==
    viewed =>
        LET b == BBox
            w == b.maxx - b.minx
            h == b.maxy - b.miny
            span == IF w >= h /\ w >= 1 THEN w ELSE IF h >= 1 THEN h ELSE 1
            z == view_state.zoom
        IN /\ view_state.latitude = b.miny + b.maxy
           /\ view_state.longitude = b.minx + b.maxx
           /\ (3600 >= 256 * span) => z = [lo |-> 8, hi |-> 8]
           /\ (3600 <= 4 * span) => z = [lo |-> 2, hi |-> 2]
           /\ (4 * span < 3600 /\ 3600 < 256 * span) =>
                 /\ (2 ^ z.lo) * span <= 3600 /\ 3600 <= (2 ^ z.hi) * span
                 /\ z.hi - z.lo <= 1
                 /\ (z.lo = z.hi) <=> ((2 ^ z.lo) * span = 3600)
           /\ BBoxIs(50, 50, 50, 50) => (span = 1 /\ z = [lo |-> 8, hi |-> 8])
           /\ BBoxIs(-100, -50, 100, 50) =>
                 /\ span = 200
                 /\ view_state.latitude = 0 /\ view_state.longitude = 0
                 /\ z = [lo |-> 4, hi |-> 5]
\* the box (-10,-5,10,5) of a selection whose first part has its
\* representative point elsewhere
C5_Witness ==
    /\ viewed /\ BBoxIs(-100, -50, 100, 50)
    /\ <<center_lat, center_lon>> # <<view_state.latitude, view_state.longitude>>

\* C6: when the requested name matches no region the run stops at the
\* check without an error: only the title, the intro and the sidebar were
\* emitted, and nothing from buffering on is bound.
C6_EmptySelectionHalts ==
    ( /\ status \in {"stopped", "done"}
      /\ \A i \in 1..Len(countries.rows) : countries.rows[i].name # country_name )
    => /\ status = "stopped"
       /\ sel.rows = << >>
       /\ out = <<"title", "markdown", "sidebar">>
       /\ defined \cap {"sel_3857", "buffered_3857", "buffered", "joined", "inside_pts",
                        "outside_pts", "layers", "view_state", "csv"} = {}
       /\ buffered = EmptyFrame /\ joined = EmptyFrame
       /\ metrics = << >> /\ layers = << >> /\ csv = << >>
\* a stopped run
C6_Witness ==
    /\ status = "stopped"
    /\ \A i \in 1..Len(countries.rows) : countries.rows[i].name # country_name

C8_Claimed ==
    done => /\ csv[1] = <<"id", "lat", "lon", "name", "inside">>
            /\ Len(csv) = 1 + Len(joined.rows)
\* C8: the download has a header line and one line per row of the table;
\* its columns are id, lat, lon, index_right, name, inside: geometry is
\* removed, and the join added index_right besides the region name.
C8_CsvColumns ==
    done => /\ csv[1] = <<"id", "lat", "lon", "index_right", "name", "inside">>
            /\ Len(csv) = 1 + Len(joined.rows)
            /\ \A i \in 1..Len(csv) : Len(csv[i]) = 6
            /\ \A i \in 2..Len(csv) : (csv[i][4] = "") <=> (csv[i][6] = "False")
            /\ joined.columns = <<"id", "lat", "lon", "geometry", "index_right", "name", "inside">>
\* a download with a matched and an unmatched row
C8_Witness ==
    /\ done
    /\ \E i \in 2..Len(csv) : csv[i][4] = "" /\ csv[i][6] = "False"
    /\ \E i \in 2..Len(csv) : csv[i][4] # "" /\ csv[i][6] = "True"

\* C9: in every run that builds the map the buffer outline is a layer
\* exactly when the distance is above 0, the selection's layer is always
\* there, and the buffered selection is computed in either case.
C9_BufferLayer ==
    done => /\ HasLayer("buffered") <=> buffer_km > 0
            /\ HasLayer("sel")
            /\ "buffered" \in defined
            /\ Len(buffered.rows) = Len(sel.rows)
\* distance 0 with the all-boundaries toggle off
C9_Witness ==
    done /\ buffer_km = 0 /\ ~show_all_countries /\ ~HasLayer("buffered")

\* the served rows under the canonical name, for the first candidate field
NameField == FirstCandidate(remote.columns)
Served(keep(_)) ==
    LET rows == SelectSeq(remote.rows, LAMBDA r : keep(r[NameField]))
    IN [i \in 1..Len(rows) |-> <<rows[i][NameField], rows[i].geometry>>]
Loaded == [i \in 1..Len(countries.rows) |-> <<countries.rows[i].name, countries.rows[i].geometry>>]
NoAntarctica ==
    /\ \A i \in 1..Len(countries.rows) : countries.rows[i].name # "Antarctica"
    /\ "Antarctica" \notin Range(options)
====
